---------------------------- MODULE Spec2Model ----------------------------
(***************************************************************************)
(* Collision engine of collision-quest: Vector2, pose transform, AABB and  *)
(* Sweep-and-Prune broad phase, the four narrow-phase detectors (gjk, sat, *)
(* linCanny, vClip) and the CollisionProvider facade (checkCollision).     *)
(*                                                                         *)
(* Numbers.  The source computes in IEEE doubles.  The model computes in   *)
(* exact arithmetic on a grid: a coordinate is an integer number of model  *)
(* units, Scale model units making one world unit, so that 0.5 and the     *)
(* default collisionThreshold 0.1 are grid values.  Rotations are whole    *)
(* quarter turns, for which cos and sin are taken as exactly 0, 1, -1.     *)
(* Quantities the source obtains with sqrt or a division are kept exact:   *)
(* a length as its square, a quotient as numerator and denominator; each   *)
(* comparison of the source is decided on these exactly.  Rounding error   *)
(* of doubles is therefore outside the model.                              *)
(***************************************************************************)
EXTENDS Integers, Sequences, FiniteSets, TLC

\* Model units per world unit.
Scale == 10

VARIABLES
    \* CollisionProvider: its React state.
    algorithm, shapes, isColliding, debugInfo, collisionPoint,
    \* The last checkCollision run: the pairs getPairs returned to it and the
    \* narrow-phase calls it made, in order, each with what it returned.
    lastCheck,
    \* A SweepAndPrune object: the shape objects its callers hold (scene),
    \* its intervals field, whether its last call was getPairs (sapPc), and
    \* what that call returned.
    scene, intervals, sapPc, pairsOut,
    \* Direct calls of the four detectors on one pair of shapes (query):
    \* the gjk call in progress and what sat, linCanny, vClip returned.
    query, gjkRun, satOut, linCannyOut, vClipOut

vars == << algorithm, shapes, isColliding, debugInfo, collisionPoint, lastCheck,
           scene, intervals, sapPc, pairsOut,
           query, gjkRun, satOut, linCannyOut, vClipOut >>

facadeVars == << algorithm, shapes, isColliding, debugInfo, collisionPoint, lastCheck >>

sapVars == << scene, intervals, sapPc, pairsOut >>

narrowVars == << query, gjkRun, satOut, linCannyOut, vClipOut >>

---------------------------------------------------------------------------
(* Vector2 *)

Vec(px, py) == [x |-> px, y |-> py]

VAdd(a, b) == Vec(a.x + b.x, a.y + b.y)

VSub(a, b) == Vec(a.x - b.x, a.y - b.y)

VScale(a, s) == Vec(a.x * s, a.y * s)

Dot(a, b) == a.x * b.x + a.y * b.y

VNegate(a) == Vec(-a.x, -a.y)

\* length() squared: length() itself is sqrt of this.
LenSq(a) == a.x * a.x + a.y * a.y

Zero == Vec(0, 0)

\* A normalize that divides by the length whatever it is.
normalizeUnguarded(v) ==
    [returned |-> [x |-> v.x, y |-> v.y, over |-> v.x * v.x + v.y * v.y], this |-> v]

\* normalize(): what it returns and the receiver as it leaves it.  The
\* vector this.scale(1 / len) is kept as (x, y) and the square of the
\* length it is divided by, over: it stands for (x, y) / sqrt(over).
normalize(v) ==
    [returned |-> IF v.x * v.x + v.y * v.y = 0
                  THEN [x |-> 0, y |-> 0, over |-> 1]
                  ELSE [x |-> v.x, y |-> v.y, over |-> v.x * v.x + v.y * v.y],
     this |-> v]

Abs(n) == IF n < 0 THEN -n ELSE n

MinOf(S) == CHOOSE m \in S : \A e \in S : m <= e

MaxOf(S) == CHOOSE m \in S : \A e \in S : m >= e

\* TLC evaluates the arguments of an operator when they are first used;
\* Force(v, e) is e, with v evaluated first.  The loops below carry their
\* accumulators through it, so that each step is evaluated in its turn.
Force(v, e) == IF v = v THEN e ELSE e

RECURSIVE GcdNat(_, _)
GcdNat(a, b) == IF b = 0 THEN a ELSE GcdNat(b, a % b)

Gcd(a, b) == GcdNat(Abs(a), Abs(b))

---------------------------------------------------------------------------
(* Shapes, pose transform, AABB *)

\* cos and sin of a rotation of r quarter turns.
Cos(r) == CASE r % 4 = 0 -> 1 [] r % 4 = 1 -> 0 [] r % 4 = 2 -> -1 [] OTHER -> 0

Sin(r) == CASE r % 4 = 0 -> 0 [] r % 4 = 1 -> 1 [] r % 4 = 2 -> 0 [] OTHER -> -1

MkShape(pts, pos, rot) == [points |-> pts, position |-> pos, rotation |-> rot]

\* A rotation with sine and cosine exchanged.
transformPointsExchanged(shape) ==
    [i \in 1..Len(shape.points) |->
        LET p == shape.points[i]
            rotated == Vec(p.x * Sin(shape.rotation) - p.y * Cos(shape.rotation),
                           p.x * Cos(shape.rotation) + p.y * Sin(shape.rotation))
        IN  Vec(rotated.x + shape.position.x, rotated.y + shape.position.y)]

transformPoints(shape) ==
    [i \in 1..Len(shape.points) |->
        LET p == shape.points[i]
            rotated == Vec(p.x * Cos(shape.rotation) - p.y * Sin(shape.rotation),
                           p.x * Sin(shape.rotation) + p.y * Cos(shape.rotation))
        IN  Vec(rotated.x + shape.position.x, rotated.y + shape.position.y)]

computeAABB(shape) ==
    LET points == transformPoints(shape)
        xs == {points[i].x : i \in 1..Len(points)}
        ys == {points[i].y : i \in 1..Len(points)}
    IN  [min |-> Vec(MinOf(xs), MinOf(ys)), max |-> Vec(MaxOf(xs), MaxOf(ys))]

\* A box test that asks for a to lie within b.
aabbWithin(a, b) ==
    /\ a.min.x >= b.min.x
    /\ a.max.x <= b.max.x
    /\ a.min.y >= b.min.y
    /\ a.max.y <= b.max.y

aabbOverlap(a, b) ==
    /\ a.min.x <= b.max.x
    /\ a.max.x >= b.min.x
    /\ a.min.y <= b.max.y
    /\ a.max.y >= b.min.y

---------------------------------------------------------------------------
(* SweepAndPrune *)

\* A shape is referred to by its identity (an index of scene); two shape
\* objects with equal fields are still two shapes.
Interval(id, sc) ==
    LET aabb == computeAABB(sc[id])
    IN  [shape |-> id, minX |-> aabb.min.x, maxX |-> aabb.max.x]

\* insert(shape): this.intervals.push({shape, minX, maxX})
SapInsert(ivs, id, sc) == Append(ivs, Interval(id, sc))

\* Array.prototype.sort with (a, b) => a.minX - b.minX, which is stable:
\* insertion of each element after the last one that is not greater.
RECURSIVE InsertSorted(_, _)
InsertSorted(sorted, e) ==
    IF sorted = << >> THEN << e >>
    ELSE IF sorted[Len(sorted)].minX <= e.minX THEN Append(sorted, e)
    ELSE Append(InsertSorted(SubSeq(sorted, 1, Len(sorted) - 1), e),
                sorted[Len(sorted)])

RECURSIVE SortByMinX(_)
SortByMinX(ivs) ==
    IF ivs = << >> THEN << >>
    ELSE InsertSorted(SortByMinX(SubSeq(ivs, 1, Len(ivs) - 1)), ivs[Len(ivs)])

\* "Remove inactive intervals": the backward splice loop.
RECURSIVE Evict(_, _)
Evict(active, current) ==
    IF active = << >> THEN << >>
    ELSE LET kept == Evict(SubSeq(active, 1, Len(active) - 1), current)
             last == active[Len(active)]
         IN  IF last.maxX < current.minX THEN kept ELSE Append(kept, last)

\* A check loop that runs after active.push(current): current meets itself.
PairsWithSelf(current, active, k, sc) == << << current.shape, current.shape >> >>

\* "Check collisions with active intervals": the pairs current adds.
RECURSIVE PairsWith(_, _, _, _)
PairsWith(current, active, k, sc) ==
    IF k > Len(active) THEN << >>
    ELSE LET other == active[k]
             aabbA == computeAABB(sc[current.shape])
             aabbB == computeAABB(sc[other.shape])
             rest  == PairsWith(current, active, k + 1, sc)
         IN  IF aabbOverlap(aabbA, aabbB)
             THEN << << current.shape, other.shape >> >> \o rest
             ELSE rest

\* The sweep over the sorted intervals from index k on.
RECURSIVE Sweep(_, _, _, _, _)
Sweep(sorted, k, active, pairs, sc) ==
    IF k > Len(sorted) THEN pairs
    ELSE LET current == sorted[k]
             kept    == Evict(active, current)
         IN  Sweep(sorted, k + 1, Append(kept, current),
                   pairs \o PairsWith(current, kept, 1, sc), sc)

\* getPairs(): the intervals field as left sorted, and the returned pairs.
getPairs(ivs, sc) ==
    LET sorted == SortByMinX(ivs)
    IN  [intervals |-> sorted, pairs |-> Sweep(sorted, 1, << >>, << >>, sc)]

---------------------------------------------------------------------------
(* Exact values: derived points, distances, signed distances *)

\* A point with rational coordinates x/d, y/d (d > 0), in lowest terms.
RPt(nx, ny, dn) ==
    LET sg == IF dn < 0 THEN -1 ELSE 1
        g  == Gcd(Gcd(nx, ny), dn)
    IN  [x |-> (sg * nx) \div g, y |-> (sg * ny) \div g, d |-> (sg * dn) \div g]

OfVec(v) == [x |-> v.x, y |-> v.y, d |-> 1]

\* (p + q) / 2 for a grid point p and a derived point q.
Midpoint(p, q) == RPt(p.x * q.d + q.x, p.y * q.d + q.y, 2 * q.d)

\* No collision point (undefined or null in the source).
NoPoint == [x |-> 0, y |-> 0, d |-> 0]

\* A distance, kept as its square n/d; Infinity is 1/0.
DistInf == [n |-> 1, d |-> 0]

DistSq(num, den) == [n |-> num, d |-> den]

DistLt(a, b) == a.n * b.d < b.n * a.d

\* A signed real sg * sqrt(n/d): sg is -1, 0 or 1; +-Infinity has d = 0.
Signed(sign, num, den) == [sg |-> sign, n |-> num, d |-> den]

SignedInf == Signed(1, 1, 0)

SignedNegInf == Signed(-1, 1, 0)

OfDist(dist) == Signed(IF dist.n = 0 THEN 0 ELSE 1, dist.n, dist.d)

SignedLt(a, b) ==
    IF a.sg # b.sg THEN a.sg < b.sg
    ELSE IF a.sg = 1 THEN a.n * b.d < b.n * a.d
    ELSE IF a.sg = -1 THEN b.n * a.d < a.n * b.d
    ELSE FALSE

---------------------------------------------------------------------------
(* CollisionConfig *)

\* collisionThreshold and epsilon are rationals num/den of a model unit:
\* 0.1 world units is 1 model unit, 1e-6 world units is 1/100000.
defaultConfig ==
    [collisionThreshold |-> [num |-> 1, den |-> 1],
     epsilon            |-> [num |-> 1, den |-> 100000],
     maxIterations      |-> 32,
     useBroadPhase      |-> TRUE]

\* A length test that does not take a zero length for a short one.
LenLtEpsNonZero(lenSq, eps) ==
    IF lenSq = 0 THEN FALSE
    ELSE IF eps.num <= eps.den THEN FALSE
    ELSE lenSq * eps.den * eps.den < eps.num * eps.num

\* length() < epsilon for a grid vector of squared length lenSq.  A grid
\* vector is zero or at least one model unit long.
LenLtEps(lenSq, eps) ==
    IF lenSq = 0 THEN eps.num > 0
    ELSE IF eps.num <= eps.den THEN FALSE
    ELSE lenSq * eps.den * eps.den < eps.num * eps.num

\* length() <= epsilon for a grid vector of squared length lenSq.
LenLeEps(lenSq, eps) ==
    IF lenSq = 0 THEN eps.num >= 0
    ELSE IF eps.num < eps.den THEN FALSE
    ELSE lenSq * eps.den * eps.den <= eps.num * eps.num

\* A threshold test on the magnitude of the distance.
BelowThresholdMagnitude(sd, config) ==
    LET th == config.collisionThreshold
    IN  sd.d # 0 /\ sd.n * th.den * th.den < th.num * th.num * sd.d

\* distance < collisionThreshold
BelowThreshold(sd, config) ==
    LET th == config.collisionThreshold
    IN  SignedLt(sd, Signed(IF th.num > 0 THEN 1 ELSE IF th.num = 0 THEN 0 ELSE -1,
                            th.num * th.num, th.den * th.den))

---------------------------------------------------------------------------
(* Closest-feature primitives *)

Cross(a, b) == a.x * b.y - a.y * b.x

\* One vertex/edge step of findClosestPoint: the closest point of the edge
\* (p2, p2Next) to p1 and its distance; skip for a degenerate edge.
\* divisors holds what the step divided by: the squared edge length, for
\* 1 / edgeLength.
FcpEdge(p1, p2, p2Next, config) ==
    LET edge == VSub(p2Next, p2)
        l2   == LenSq(edge)
        w    == VSub(p1, p2)
        pr   == Dot(w, edge)
    IN  IF LenLtEps(l2, config.epsilon) THEN [skip |-> TRUE, divisors |-> {}]
        ELSE IF pr <= 0
             THEN [skip |-> FALSE, on |-> OfVec(p2), dist |-> DistSq(LenSq(w), 1),
                   divisors |-> {l2}]
        ELSE IF pr >= l2
             THEN [skip |-> FALSE, on |-> OfVec(p2Next),
                   dist |-> DistSq(LenSq(VSub(p1, p2Next)), 1), divisors |-> {l2}]
        ELSE [skip |-> FALSE,
              on   |-> RPt(p2.x * l2 + edge.x * pr, p2.y * l2 + edge.y * pr, l2),
              dist |-> DistSq(Cross(w, edge) * Cross(w, edge), l2),
              divisors |-> {l2}]

\* The double loop of findClosestPoint over the vertices of vs and the
\* edges of es, from its k-th (vertex, edge) step on.
RECURSIVE FcpScan(_, _, _, _, _)
FcpScan(vs, es, k, best, config) ==
    IF k >= Len(vs) * Len(es) THEN best
    ELSE LET p1   == vs[(k \div Len(es)) + 1]
             j    == (k % Len(es)) + 1
             r    == FcpEdge(p1, es[j], es[(j % Len(es)) + 1], config)
             next == IF ~r.skip /\ DistLt(r.dist, best.minDistance)
                     THEN [minDistance |-> r.dist, closestPoint |-> Midpoint(p1, r.on)]
                     ELSE best
         IN  Force(next, FcpScan(vs, es, k + 1, next, config))

findClosestPoint(points1, points2, config) ==
    LET first == FcpScan(points1, points2, 0,
                         [minDistance |-> DistInf, closestPoint |-> OfVec(Zero)],
                         config)
    IN  Force(first, FcpScan(points2, points1, 0, first, config).closestPoint)

\* getClosestPointOnLineSegment, with the distance of point to what it
\* returns: lineStart + line * clamp(dot / len^2, 0, 1), and with what it
\* divided by (divisors).
getClosestPointOnLineSegment(point, lineStart, lineEnd, config) ==
    LET line == VSub(lineEnd, lineStart)
        l2   == LenSq(line)
        w    == VSub(point, lineStart)
        pr   == Dot(w, line)
    IN  IF LenLtEps(l2, config.epsilon)
        THEN [point |-> OfVec(lineStart), dist |-> DistSq(LenSq(w), 1), divisors |-> {}]
        ELSE IF pr <= 0
             THEN [point |-> OfVec(lineStart), dist |-> DistSq(LenSq(w), 1),
                   divisors |-> {l2}]
        ELSE IF pr >= l2
             THEN [point |-> OfVec(lineEnd),
                   dist  |-> DistSq(LenSq(VSub(point, lineEnd)), 1), divisors |-> {l2}]
        ELSE [point |-> RPt(lineStart.x * l2 + line.x * pr,
                            lineStart.y * l2 + line.y * pr, l2),
              dist  |-> DistSq(Cross(w, line) * Cross(w, line), l2),
              divisors |-> {l2}]

\* What the ray-crossing test of one edge divides by: b.y - a.y, when the
\* left operand of && holds.
RayDivisors(point, a, b) ==
    IF (a.y > point.y) # (b.y > point.y) THEN {b.y - a.y} ELSE {}

\* One edge of the even-odd ray-crossing test: polygon[i] = a, polygon[j] = b.
RayCrosses(point, a, b) ==
    /\ (a.y > point.y) # (b.y > point.y)
    /\ IF b.y - a.y > 0
       THEN (point.x - a.x) * (b.y - a.y) < (b.x - a.x) * (point.y - a.y)
       ELSE (point.x - a.x) * (b.y - a.y) > (b.x - a.x) * (point.y - a.y)

\* isInside (linCanny) and containsPoint (vClip): the same loop.
isInside(point, polygon) ==
    LET n == Len(polygon)
        crossings == {i \in 1..n :
                        RayCrosses(point, polygon[i],
                                   polygon[IF i = 1 THEN n ELSE i - 1])}
    IN  Cardinality(crossings) % 2 = 1

---------------------------------------------------------------------------
(* Results and debug traces *)

\* A trace entry: its fixed text and the numbers formatted into it.
Msg(text) == [text |-> text, args |-> << >>]

\* Number.prototype.toFixed(f) of the world coordinate num/(den * Scale):
\* the sign and the rounded count of 10^-f units (ties go up in magnitude).
Pow10(f) == IF f = 1 THEN 10 ELSE 100

toFixed(num, den, f) ==
    LET a == Abs(num) * Pow10(f)
        b == den * Scale
    IN  [neg |-> num < 0, units |-> (2 * a + b) \div (2 * b)]

\* A point formatted into a message; no numbers when the point is "none".
PointMsg(text, pt, f) ==
    IF pt = NoPoint THEN [text |-> text, args |-> << >>]
    ELSE [text |-> text, args |-> << toFixed(pt.x, pt.d, f), toFixed(pt.y, pt.d, f) >>]

Result(c, dbg, pt) == [colliding |-> c, debug |-> dbg, collisionPoint |-> pt]

---------------------------------------------------------------------------
(* linCanny *)

\* checkLineIntersection
checkLineIntersection(a1, a2, b1, b2) ==
    LET denominator == (b2.y - b1.y) * (a2.x - a1.x) - (b2.x - b1.x) * (a2.y - a1.y)
        uaNum == (b2.x - b1.x) * (a1.y - b1.y) - (b2.y - b1.y) * (a1.x - b1.x)
        ubNum == (a2.x - a1.x) * (a1.y - b1.y) - (a2.y - a1.y) * (a1.x - b1.x)
        sg    == IF denominator < 0 THEN -1 ELSE 1
        InUnit(num) == sg * num >= 0 /\ sg * num <= sg * denominator
    IN  IF denominator = 0 THEN [intersects |-> FALSE, point |-> NoPoint, divisors |-> {}]
        ELSE IF InUnit(uaNum) /\ InUnit(ubNum)
             THEN [intersects |-> TRUE,
                   point |-> RPt(a1.x * denominator + uaNum * (a2.x - a1.x),
                                 a1.y * denominator + uaNum * (a2.y - a1.y),
                                 denominator),
                   divisors |-> {denominator}]
        ELSE [intersects |-> FALSE, point |-> NoPoint, divisors |-> {denominator}]

\* The body of checkVertexEdges for one vertex and one edge.
LcVertexEdge(closest, vertex, edgeStart, edgeEnd, config) ==
    LET edgeVec  == VSub(edgeEnd, edgeStart)
        edgeNormal == normalize(Vec(-edgeVec.y, edgeVec.x)).returned
        toVertex == VSub(vertex, edgeStart)
        s        == Dot(toVertex, edgeNormal)
        \* toVertex.dot(edgeNormal) is s / sqrt(edgeNormal.over)
        signedDist == IF s = 0 THEN Signed(0, 0, 1)
                      ELSE Signed(IF s < 0 THEN -1 ELSE 1, s * s, edgeNormal.over)
        proj     == getClosestPointOnLineSegment(vertex, edgeStart, edgeEnd, config)
        absDist  == proj.dist
    IN  IF signedDist.sg < 0 \/ DistLt(absDist, closest.distance)
        THEN LET effectiveDist == IF signedDist.sg < 0 THEN signedDist ELSE OfDist(absDist)
             IN  IF SignedLt(effectiveDist, closest.signedDistance)
                 THEN [distance       |-> absDist,
                       signedDistance |-> effectiveDist,
                       point          |-> Midpoint(vertex, proj.point),
                       type           |-> IF signedDist.sg < 0 THEN "Penetration"
                                          ELSE "Proximity"]
                 ELSE closest
        ELSE closest

\* checkVertexEdges(vertices, edges), from the k-th (vertex, edge)
\* combination of its double loop on.
RECURSIVE checkVertexEdges(_, _, _, _, _)
checkVertexEdges(closest, vertices, edges, k, config) ==
    IF k >= Len(vertices) * Len(edges) THEN closest
    ELSE LET i    == (k % Len(edges)) + 1
             next == LcVertexEdge(closest, vertices[(k \div Len(edges)) + 1],
                                  edges[i], edges[(i % Len(edges)) + 1], config)
         IN  Force(next, checkVertexEdges(next, vertices, edges, k + 1, config))

\* checkEdgePairs(), from the k-th pair of edges on.
RECURSIVE checkEdgePairs(_, _, _, _)
checkEdgePairs(closest, points1, points2, k) ==
    IF k >= Len(points1) * Len(points2) THEN closest
    ELSE LET i == (k \div Len(points2)) + 1
             j == (k % Len(points2)) + 1
             intersect == checkLineIntersection(points1[i], points1[(i % Len(points1)) + 1],
                                                points2[j], points2[(j % Len(points2)) + 1])
             next == IF intersect.intersects
                     THEN [distance |-> DistSq(0, 1), signedDistance |-> SignedNegInf,
                           point |-> intersect.point, type |-> "Edge-Intersection"]
                     ELSE closest
         IN  Force(next, checkEdgePairs(next, points1, points2, k + 1))

\* The closest record linCanny ends with.
LinCannyClosest(shapeA, shapeB, config) ==
    LET points1 == transformPoints(shapeA)
        points2 == transformPoints(shapeB)
        in2 == {i \in 1..Len(points1) : isInside(points1[i], points2)}
        in1 == {i \in 1..Len(points2) : isInside(points2[i], points1)}
        \* containedPoints[0]: the first vertex of points1 inside points2,
        \* else the first vertex of points2 inside points1
        firstContained == IF in2 # {} THEN points1[MinOf(in2)] ELSE points2[MinOf(in1)]
        initial == [distance |-> DistInf, signedDistance |-> SignedInf,
                    point |-> NoPoint, type |-> ""]
    IN  IF in2 # {} \/ in1 # {}
        THEN [distance |-> DistSq(0, 1), signedDistance |-> SignedNegInf,
              point |-> OfVec(firstContained), type |-> "Containment"]
        ELSE LET first  == checkVertexEdges(initial, points1, points2, 0, config)
                 second == checkVertexEdges(first, points2, points1, 0, config)
             IN  Force(first, Force(second, checkEdgePairs(second, points1, points2, 0)))

\* linCanny from "const colliding = ..." on: what it returns for its closest.
LinCannyReturn(closest, config) ==
    Result(BelowThreshold(closest.signedDistance, config),
           << Msg("Starting enhanced Lin-Canny algorithm") >>
           \o (IF closest.type = "Containment"
               THEN << Msg("Containment detected") >> ELSE << >>)
           \o << PointMsg("Collision point", closest.point, 1) >>,
           closest.point)

linCanny(shapeA, shapeB, config) ==
    LinCannyReturn(LinCannyClosest(shapeA, shapeB, config), config)

---------------------------------------------------------------------------
(* vClip *)

\* checkPairs(vertices, edges) of checkEdges, from the k-th (vertex, edge)
\* combination of its double loop on.
RECURSIVE checkPairs(_, _, _, _, _)
checkPairs(closest, vertices, edges, k, config) ==
    IF k >= Len(vertices) * Len(edges) THEN closest
    ELSE LET vertex == vertices[(k \div Len(edges)) + 1]
             i      == (k % Len(edges)) + 1
             proj   == getClosestPointOnLineSegment(vertex, edges[i],
                                                    edges[(i % Len(edges)) + 1], config)
             next   == IF DistLt(proj.dist, closest.distance)
                       THEN [distance |-> proj.dist,
                             point |-> Midpoint(vertex, proj.point),
                             type |-> "Edge-Vertex"]
                       ELSE closest
         IN  Force(next, checkPairs(next, vertices, edges, k + 1, config))

\* The closest record vClip ends with: checkContainment(), else checkEdges().
VClipClosest(shapeA, shapeB, config) ==
    LET points1 == transformPoints(shapeA)
        points2 == transformPoints(shapeB)
        initial == [distance |-> DistInf, point |-> NoPoint, type |-> ""]
    IN  IF \E i \in 1..Len(points1) : isInside(points1[i], points2)
        THEN [distance |-> DistSq(0, 1),
              point |-> findClosestPoint(points1, points2, config),
              type |-> "Containment (ShapeA in ShapeB)"]
        ELSE IF \E i \in 1..Len(points2) : isInside(points2[i], points1)
        THEN [distance |-> DistSq(0, 1),
              point |-> findClosestPoint(points2, points1, config),
              type |-> "Containment (ShapeB in ShapeA)"]
        ELSE LET first == checkPairs(initial, points1, points2, 0, config)
             IN  Force(first, checkPairs(first, points2, points1, 0, config))

\* vClip from "const colliding = ..." on: what it returns for its closest.
VClipReturn(closest, config) ==
    Result(BelowThreshold(OfDist(closest.distance), config),
           << Msg("Starting V-Clip algorithm"),
              PointMsg("Final collision point", closest.point, 2) >>,
           closest.point)

vClip(shapeA, shapeB, config) ==
    VClipReturn(VClipClosest(shapeA, shapeB, config), config)

---------------------------------------------------------------------------
(* gjk *)

\* support(points, dir): the first vertex of maximal dot product.
\* A support function that takes the vertex farthest against the direction.
supportOpposite(points, dir) ==
    LET best == MinOf({Dot(points[i], dir) : i \in 1..Len(points)})
    IN  points[MinOf({i \in 1..Len(points) : Dot(points[i], dir) = best})]

support(points, dir) ==
    LET best == MaxOf({Dot(points[i], dir) : i \in 1..Len(points)})
    IN  points[MinOf({i \in 1..Len(points) : Dot(points[i], dir) = best})]

\* getSupport(dir): support point of the Minkowski difference.
getSupport(points1, points2, dir) ==
    VSub(support(points1, dir), support(points2, VNegate(dir)))

\* Object identity.  A Vector2 object is named by the place that created
\* it and the execution of that place: the n-th vertex of points1, the
\* result of the n-th getSupport call, ...
NewVector2(site, n) == [site |-> site, n |-> n]

\* A Vector2 value together with the object that holds it.
Object(v, ref) == [x |-> v.x, y |-> v.y, ref |-> ref]

\* The object support(points, dir) returns: an element of points.
supportObject(points, site, dir) ==
    LET best == MaxOf({Dot(points[i], dir) : i \in 1..Len(points)})
    IN  NewVector2(site, MinOf({i \in 1..Len(points) : Dot(points[i], dir) = best}))

\* A sub that writes its result into the receiver and returns it.
subInPlace(receiver, fresh) == receiver

\* The object receiver.sub(v) returns: a new one.
subObject(receiver, fresh) == fresh

\* The object receiver.negate() returns: a new one.
negateObject(receiver, fresh) == fresh

\* receiver.copy(v): the receiver, holding v's coordinates.
copy(receiver, v) == [receiver EXCEPT !.x = v.x, !.y = v.y]

\* The object the n-th getSupport call returns, p1.sub(p2).
getSupportObject(points1, points2, dir, n) ==
    Object(getSupport(points1, points2, dir),
           subObject(supportObject(points1, "points1", dir), NewVector2("getSupport", n)))

tripleProduct(a, b, c) ==
    LET ac == Dot(a, c)
        bc == Dot(b, c)
    IN  Vec(b.x * ac - a.x * bc, b.y * ac - a.y * bc)

\* handleLine, handleTriangle, handleSimplex return what they return
\* (hit) and the simplex and direction objects as they leave them.
Handled(h, sx, dir) == [hit |-> h, simplex |-> sx, direction |-> dir]

\* A line case that turns the direction to the perpendicular away from
\* the origin.
handleLineAwayFromOrigin(simplex, direction, config) ==
    LET a  == simplex[2]
        b  == simplex[1]
        ab == VSub(b, a)
        ao == VSub(Zero, a)
        perp == tripleProduct(ab, ao, ab)
    IN  IF LenLtEps(LenSq(ab), config.epsilon)
        THEN Handled(LenLeEps(LenSq(a), config.epsilon), simplex, direction)
        ELSE IF LenSq(perp) = 0
        THEN Handled(LenSq(a) <= LenSq(ab) /\ LenSq(b) <= LenSq(ab), simplex, direction)
        ELSE Handled(FALSE, simplex, copy(direction, VNegate(perp)))

handleLine(simplex, direction, config) ==
    LET a  == simplex[2]
        b  == simplex[1]
        ab == VSub(b, a)
        ao == VSub(Zero, a)
        perp == tripleProduct(ab, ao, ab)
    IN  IF LenLtEps(LenSq(ab), config.epsilon)
        THEN Handled(LenLeEps(LenSq(a), config.epsilon), simplex, direction)
        ELSE IF LenSq(perp) = 0
        THEN Handled(LenSq(a) <= LenSq(ab) /\ LenSq(b) <= LenSq(ab), simplex, direction)
        ELSE Handled(FALSE, simplex, copy(direction, perp))

\* A triangle case that turns the direction but removes no point.
handleTriangleNoSplice(simplex, direction, config) ==
    LET a  == simplex[3]
        b  == simplex[2]
        c  == simplex[1]
        ab == VSub(b, a)
        ac == VSub(c, a)
        ao == VSub(Zero, a)
        abPerp == tripleProduct(ac, ab, ab)
        acPerp == tripleProduct(ab, ac, ac)
    IN  IF Dot(abPerp, ao) > 0
        THEN Handled(FALSE, simplex, copy(direction, abPerp))
        ELSE IF Dot(acPerp, ao) > 0
        THEN Handled(FALSE, simplex, copy(direction, acPerp))
        ELSE Handled(TRUE, simplex, direction)

\* A triangle case that removes the newest point where c is to go.
handleTriangleDropsNewest(simplex, direction, config) ==
    LET a  == simplex[3]
        b  == simplex[2]
        c  == simplex[1]
        ab == VSub(b, a)
        ac == VSub(c, a)
        ao == VSub(Zero, a)
        abPerp == tripleProduct(ac, ab, ab)
        acPerp == tripleProduct(ab, ac, ac)
    IN  IF Dot(abPerp, ao) > 0
        THEN Handled(FALSE, << c, b >>, copy(direction, abPerp))
        ELSE IF Dot(acPerp, ao) > 0
        THEN Handled(FALSE, << c, a >>, copy(direction, acPerp))
        ELSE Handled(TRUE, simplex, direction)

handleTriangle(simplex, direction, config) ==
    LET a  == simplex[3]
        b  == simplex[2]
        c  == simplex[1]
        ab == VSub(b, a)
        ac == VSub(c, a)
        ao == VSub(Zero, a)
        abPerp == tripleProduct(ac, ab, ab)
        acPerp == tripleProduct(ab, ac, ac)
    IN  IF Dot(abPerp, ao) > 0
        THEN Handled(FALSE, << b, a >>, copy(direction, abPerp))
        ELSE IF Dot(acPerp, ao) > 0
        THEN Handled(FALSE, << c, a >>, copy(direction, acPerp))
        ELSE Handled(TRUE, simplex, direction)

handleSimplex(simplex, direction, config) ==
    IF Len(simplex) = 2 THEN handleLine(simplex, direction, config)
    ELSE IF Len(simplex) = 3 THEN handleTriangle(simplex, direction, config)
    ELSE Handled(FALSE, simplex, direction)

\* A gjk call in progress: its locals, the number i of loop iterations
\* begun, the number of points handleSimplex got in the last iteration
\* (0 when it was not called), and, once it has returned, its result.
GjkIdle ==
    [status |-> "idle", simplex |-> << >>, direction |-> Zero, i |-> 0, handled |-> 0,
     exit |-> "", result |-> Result(FALSE, << >>, NoPoint)]

\* gjk up to the first test of the loop condition.
GjkBegin(shapeA, shapeB, config) ==
    LET points1 == transformPoints(shapeA)
        points2 == transformPoints(shapeB)
        point   == getSupportObject(points1, points2, Vec(1, 0), 0)
    IN  IF config.useBroadPhase /\ ~aabbOverlap(computeAABB(shapeA), computeAABB(shapeB))
        THEN [status |-> "returned", simplex |-> << >>, direction |-> Zero, i |-> 0,
              handled |-> 0, exit |-> "broad-phase",
              result |-> Result(FALSE, << Msg("Broad-phase: No AABB overlap") >>, NoPoint)]
        ELSE [status |-> "loop", simplex |-> << point >>,
              direction |-> Object(VNegate(point),
                                   negateObject(point.ref, NewVector2("negate", 0))),
              i |-> 0, handled |-> 0, exit |-> "",
              result |-> Result(FALSE, << Msg("Starting GJK algorithm") >>, NoPoint)]

\* A loop condition that lets one iteration too many through.
LoopContinuesOffByOne(i, config) == i <= config.maxIterations

\* The loop condition i < config.maxIterations
LoopContinues(i, config) == i < config.maxIterations

\* A test that lets a support point with dot product 0 through.
NotPastOriginStrict(point, direction) == Dot(point, direction) < 0

\* point.dot(direction) <= 0
NotPastOrigin(point, direction) == Dot(point, direction) <= 0

\* One test of the loop condition and, when it holds, one execution of the
\* loop body.
GjkIterate(g, shapeA, shapeB, config) ==
    LET points1 == transformPoints(shapeA)
        points2 == transformPoints(shapeB)
        point   == getSupportObject(points1, points2, g.direction, g.i + 1)
        pushed  == Append(g.simplex, point)
        \* handleSimplex is called without a config: its default applies
        h       == handleSimplex(pushed, g.direction, defaultConfig)
    IN  IF ~LoopContinues(g.i, config)
        THEN [g EXCEPT !.status = "returned", !.exit = "max-iterations", !.handled = 0,
                       !.result = Result(FALSE,
                                         Append(g.result.debug, Msg("Max iterations reached")),
                                         NoPoint)]
        ELSE IF NotPastOrigin(point, g.direction)
        THEN [g EXCEPT !.status = "returned", !.exit = "not-past-origin", !.i = g.i + 1,
                       !.handled = 0,
                       !.result = Result(FALSE,
                                         Append(g.result.debug,
                                                Msg("No collision - point not past origin")),
                                         NoPoint)]
        ELSE IF h.hit
        THEN [g EXCEPT !.status = "returned", !.exit = "enclosed", !.i = g.i + 1,
                       !.handled = Len(pushed),
                       !.simplex = h.simplex, !.direction = h.direction,
                       !.result = Result(TRUE,
                                         Append(g.result.debug,
                                                Msg("Collision detected - origin enclosed by simplex")),
                                         findClosestPoint(points1, points2, config))]
        ELSE [g EXCEPT !.i = g.i + 1, !.handled = Len(pushed),
                       !.simplex = h.simplex, !.direction = h.direction]

RECURSIVE GjkRun(_, _, _, _)
GjkRun(g, shapeA, shapeB, config) ==
    IF g.status = "returned" THEN g
    ELSE GjkRun(GjkIterate(g, shapeA, shapeB, config), shapeA, shapeB, config)

gjk(shapeA, shapeB, config) ==
    GjkRun(GjkBegin(shapeA, shapeB, config), shapeA, shapeB, config).result

---------------------------------------------------------------------------
(* sat *)

\* getAxes(points): the normalized edge normals.  project takes the dot
\* products with (x, y) and leaves the division by sqrt(over) out: a
\* positive factor changes no comparison of two projections on one axis.
getAxes(points) ==
    [i \in 1..Len(points) |->
        LET edge == VSub(points[(i % Len(points)) + 1], points[i])
        IN  normalize(Vec(-edge.y, edge.x)).returned]

project(points, axis) ==
    LET ds == {Dot(points[i], axis) : i \in 1..Len(points)}
    IN  [min |-> MinOf(ds), max |-> MaxOf(ds)]

\* A gap test that also takes touching intervals for a gap.
GapOrTouch(points1, points2, axis) ==
    LET projection1 == project(points1, axis)
        projection2 == project(points2, axis)
    IN  \/ projection1.max <= projection2.min
        \/ projection2.max <= projection1.min

\* A gap test that takes the zero axis for a separating one.
GapOnZeroAxis(points1, points2, axis) ==
    LET projection1 == project(points1, axis)
        projection2 == project(points2, axis)
    IN  \/ axis.x = 0 /\ axis.y = 0
        \/ projection1.max < projection2.min
        \/ projection2.max < projection1.min

\* The gap test of the loop over the axes.
Gap(points1, points2, axis) ==
    LET projection1 == project(points1, axis)
        projection2 == project(points2, axis)
    IN  \/ projection1.max < projection2.min
        \/ projection2.max < projection1.min

\* The loop over the axes: how many axes it tests before it returns or
\* ends, and whether it returned at a gap.
AxisLoop(points1, points2) ==
    LET axes == getAxes(points1) \o getAxes(points2)
        gaps == { k \in 1..Len(axes) : Gap(points1, points2, axes[k]) }
    IN  IF gaps = {} THEN [gap |-> FALSE, tested |-> Len(axes)]
        ELSE [gap |-> TRUE, tested |-> MinOf(gaps)]

sat(shapeA, shapeB, config) ==
    LET points1 == transformPoints(shapeA)
        points2 == transformPoints(shapeB)
    IN  IF config.useBroadPhase /\ ~aabbOverlap(computeAABB(shapeA), computeAABB(shapeB))
        THEN Result(FALSE, << Msg("Broad-phase: No AABB overlap") >>, NoPoint)
        ELSE IF AxisLoop(points1, points2).gap
        THEN Result(FALSE, << Msg("Starting SAT algorithm"), Msg("Gap found - no collision") >>,
                    NoPoint)
        ELSE Result(TRUE,
                    << Msg("Starting SAT algorithm"),
                       Msg("No separating axis found - collision detected!") >>,
                    \* the first axis has overlap < Infinity and sets it
                    findClosestPoint(points1, points2, config))

\* The number of axes a sat call tests.
SatAxesTested(shapeA, shapeB, config) ==
    IF config.useBroadPhase /\ ~aabbOverlap(computeAABB(shapeA), computeAABB(shapeB))
    THEN 0
    ELSE AxisLoop(transformPoints(shapeA), transformPoints(shapeB)).tested

---------------------------------------------------------------------------
(* CollisionProvider: checkCollision, updateShape, setAlgorithm *)

Algorithms == {"GJK", "SAT", "Lin-Canny", "V-Clip"}

\* collisionConfig: {...defaultConfig, useBroadPhase: true}
collisionConfig == [defaultConfig EXCEPT !.useBroadPhase = TRUE]

\* The switch on the selected algorithm.
Narrow(algo, shapeA, shapeB, config) ==
    CASE algo = "GJK"       -> gjk(shapeA, shapeB, config)
      [] algo = "SAT"       -> sat(shapeA, shapeB, config)
      [] algo = "Lin-Canny" -> linCanny(shapeA, shapeB, config)
      [] algo = "V-Clip"    -> vClip(shapeA, shapeB, config)

Call(algo, shapeA, shapeB, res) ==
    [algorithm |-> algo, shapeA |-> shapeA, shapeB |-> shapeB, result |-> res]

\* A callback that takes every candidate pair for a collision.
ForEachPairAnyPair(finalResult, result) ==
    Result(TRUE, finalResult.debug \o result.debug, result.collisionPoint)

\* A callback that keeps the first colliding pair's point.
ForEachPairFirstWins(finalResult, result) ==
    IF result.colliding
    THEN Result(TRUE, finalResult.debug \o result.debug,
                IF finalResult.colliding THEN finalResult.collisionPoint
                ELSE result.collisionPoint)
    ELSE finalResult

\* A callback that takes the point of every candidate pair, colliding or not.
ForEachPairTakesPoint(finalResult, result) ==
    IF result.colliding
    THEN Result(TRUE, finalResult.debug \o result.debug, result.collisionPoint)
    ELSE [finalResult EXCEPT !.collisionPoint = result.collisionPoint]

\* The callback of pairs.forEach for one pair: finalResult after it.
ForEachPair(finalResult, result) ==
    IF result.colliding
    THEN Result(TRUE, finalResult.debug \o result.debug, result.collisionPoint)
    ELSE finalResult

\* One execution of the callback: finalResult and the calls made so far,
\* after the narrow-phase call `call`.
AfterPair(acc, call) ==
    [final |-> ForEachPair(acc.final, call.result), calls |-> Append(acc.calls, call)]

\* pairs.forEach(...) from the k-th pair on.
RECURSIVE NarrowLoop(_, _, _, _, _)
NarrowLoop(pairs, k, sc, algo, acc) ==
    IF k > Len(pairs) THEN acc
    ELSE NarrowLoop(pairs, k + 1, sc, algo,
                    AfterPair(acc, Call(algo, sc[pairs[k][1]], sc[pairs[k][2]],
                                        Narrow(algo, sc[pairs[k][1]], sc[pairs[k][2]],
                                               collisionConfig))))

\* let finalResult = {colliding: false, debug: ["Starting collision check..."], ...}
StartResult == Result(FALSE, << Msg("Starting collision check...") >>, NoPoint)

\* An aggregation without the branch for an empty pair list.
AggregateNoShortCut(pairs, sc, algo) ==
    [ran |-> TRUE, pairs |-> pairs,
     run |-> NarrowLoop(pairs, 1, sc, algo, [final |-> StartResult, calls |-> << >>])]

\* checkCollision from "const pairs = sap.getPairs()" on: what it hands to
\* setIsColliding, setDebugInfo, setCollisionPoint (final), the pairs it got
\* and the calls it made.
Aggregate(pairs, sc, algo) ==
    IF Len(pairs) > 0
    THEN [ran |-> TRUE, pairs |-> pairs,
          run |-> NarrowLoop(pairs, 1, sc, algo, [final |-> StartResult, calls |-> << >>])]
    ELSE [ran |-> TRUE, pairs |-> pairs,
          run |-> [final |-> [StartResult EXCEPT !.debug =
                                 Append(StartResult.debug,
                                        Msg("Broad-phase: No potential collisions found"))],
                   calls |-> << >>]]

\* checkCollision(currentShapes): a new SweepAndPrune, two inserts, getPairs,
\* and the rest.
checkCollision(currentShapes, algo) ==
    Aggregate(getPairs(SapInsert(SapInsert(<< >>, 1, currentShapes), 2, currentShapes),
                       currentShapes).pairs,
              currentShapes, algo)

---------------------------------------------------------------------------
(* Values the variables of a part hold while another part runs *)

NoCheck == [ran |-> FALSE, pairs |-> << >>, calls |-> << >>]

FacadeIdle ==
    /\ algorithm = "GJK"
    /\ shapes = << >>
    /\ isColliding = FALSE
    /\ debugInfo = << >>
    /\ collisionPoint = NoPoint
    /\ lastCheck = NoCheck

SapIdle ==
    /\ scene = << >>
    /\ intervals = << >>
    /\ sapPc = "none"
    /\ pairsOut = << >>

NotCalled == [called |-> FALSE]

NarrowIdle ==
    /\ query = [shapeA |-> MkShape(<< >>, Zero, 0), shapeB |-> MkShape(<< >>, Zero, 0),
                config |-> defaultConfig]
    /\ gjkRun = GjkIdle
    /\ satOut = NotCalled
    /\ linCannyOut = NotCalled
    /\ vClipOut = NotCalled

---------------------------------------------------------------------------
(* A SweepAndPrune object under insert and getPairs calls *)

MaxInserts == 3

\* A square of the given half side, and a rectangle.
Square(h) == << Vec(-h, -h), Vec(h, -h), Vec(h, h), Vec(-h, h) >>

Rect(hx, hy) == << Vec(-hx, -hy), Vec(hx, -hy), Vec(hx, hy), Vec(-hx, hy) >>

\* Squares of side 2 with x-extents [0,2], [1,3], [5,7], one of them also
\* moved off the others on y, and a rectangle that spans all of them on x.
SapShapes ==
    { MkShape(Square(Scale), Vec(Scale, 0), 0),
      MkShape(Square(Scale), Vec(2 * Scale, 0), 0),
      MkShape(Square(Scale), Vec(6 * Scale, 0), 0),
      MkShape(Square(Scale), Vec(2 * Scale, 4 * Scale), 0),
      MkShape(Rect(3 * Scale, Scale), Vec(3 * Scale, 2 * Scale), 1) }

InitSAP ==
    /\ FacadeIdle
    /\ NarrowIdle
    /\ scene \in { << a, b, c >> : a \in SapShapes, b \in SapShapes, c \in SapShapes }
    /\ intervals = << >>
    /\ sapPc = "new"
    /\ pairsOut = << >>

\* sap.insert(scene[id])
Insert(id) ==
    /\ Len(intervals) < MaxInserts
    /\ intervals' = SapInsert(intervals, id, scene)
    /\ sapPc' = "inserted"
    /\ pairsOut' = << >>
    /\ UNCHANGED << scene, facadeVars, narrowVars >>

\* sap.getPairs()
GetPairs ==
    /\ intervals' = getPairs(intervals, scene).intervals
    /\ pairsOut' = getPairs(intervals, scene).pairs
    /\ sapPc' = "returned"
    /\ UNCHANGED << scene, facadeVars, narrowVars >>

NextSAP ==
    \/ \E id \in DOMAIN scene : Insert(id)
    \/ GetPairs

SpecSAP == InitSAP /\ [][NextSAP]_vars

\* The shapes that were inserted, and the unordered pairs of distinct ones
\* whose bounding boxes overlap on both axes.
InsertedShapes == { intervals[k].shape : k \in DOMAIN intervals }

OverlappingPairs ==
    { pr \in { {a, b} : a \in InsertedShapes, b \in InsertedShapes } :
        \E a \in pr : \E b \in pr :
            a # b /\ aabbOverlap(computeAABB(scene[a]), computeAABB(scene[b])) }

ReturnedPairs == { {pairsOut[k][1], pairsOut[k][2]} : k \in DOMAIN pairsOut }

\* C2: whatever was inserted, what getPairs returns is exactly the unordered
\* pairs of distinct inserted shapes whose boxes overlap on both axes, each
\* of them once.
C2_GetPairsExact ==
    sapPc = "returned" =>
        /\ \A k \in DOMAIN pairsOut : pairsOut[k][1] # pairsOut[k][2]
        /\ ReturnedPairs = OverlappingPairs
        /\ Len(pairsOut) = Cardinality(OverlappingPairs)

\* No shape was inserted twice.
NoDuplicateInsert == Cardinality(InsertedShapes) = Len(intervals)

\* getPairs is exact when the inserted shapes are pairwise distinct.
GetPairsExactOnDistinct == NoDuplicateInsert => C2_GetPairsExact

\* The three squares with x-extents [0,2], [1,3], [5,7]: the only pair
\* returned is the first two.
GetPairsExample ==
    ( /\ sapPc = "returned"
      /\ scene = << MkShape(Square(Scale), Vec(Scale, 0), 0),
                    MkShape(Square(Scale), Vec(2 * Scale, 0), 0),
                    MkShape(Square(Scale), Vec(6 * Scale, 0), 0) >>
      /\ InsertedShapes = {1, 2, 3} )
    => ReturnedPairs = {{1, 2}} /\ Len(pairsOut) = 1

---------------------------------------------------------------------------
(* The four detectors called directly on one pair of shapes *)

MaxIterationsTried == 2

Triangle == << Vec(0, -5), Vec(4, 3), Vec(-4, 3) >>

\* The unit square, a smaller square, a triangle.
NarrowPolygons == { Square(Scale \div 2), Square(2), Triangle }

NarrowOffsets == { Vec(x, y) : x \in {0, 5, 9, 10, 3 * Scale}, y \in {0, 4, -9} }

\* The default configuration, and configurations that differ from it in
\* one field.
NarrowConfigs ==
    { defaultConfig, [defaultConfig EXCEPT !.useBroadPhase = FALSE] }
    \cup { [defaultConfig EXCEPT !.maxIterations = n] : n \in 1..MaxIterationsTried }
    \cup { [defaultConfig EXCEPT !.collisionThreshold = t] :
              t \in { [num |-> 1, den |-> 100], [num |-> 5 * Scale, den |-> 1] } }

InitNarrow ==
    /\ FacadeIdle
    /\ SapIdle
    /\ query \in { [shapeA |-> MkShape(pa, Zero, 0), shapeB |-> MkShape(pb, pos, rot),
                    config |-> cfg] :
                   pa \in NarrowPolygons, pb \in NarrowPolygons, pos \in NarrowOffsets,
                   rot \in {0, 1}, cfg \in NarrowConfigs }
    /\ gjkRun = GjkIdle
    /\ satOut = NotCalled
    /\ linCannyOut = NotCalled
    /\ vClipOut = NotCalled

\* gjk(shapeA, shapeB, config) is called and reaches its loop, or returns
\* from its broad-phase test.
GjkCall ==
    /\ gjkRun.status = "idle"
    /\ gjkRun' = GjkBegin(query.shapeA, query.shapeB, query.config)
    /\ UNCHANGED << query, satOut, linCannyOut, vClipOut, facadeVars, sapVars >>

\* One turn of gjk's loop.
GjkStep ==
    /\ gjkRun.status = "loop"
    /\ gjkRun' = GjkIterate(gjkRun, query.shapeA, query.shapeB, query.config)
    /\ UNCHANGED << query, satOut, linCannyOut, vClipOut, facadeVars, sapVars >>

SatCall ==
    /\ gjkRun.status = "returned"
    /\ ~satOut.called
    /\ satOut' = [called |-> TRUE,
                  result |-> sat(query.shapeA, query.shapeB, query.config),
                  tested |-> SatAxesTested(query.shapeA, query.shapeB, query.config)]
    /\ UNCHANGED << query, gjkRun, linCannyOut, vClipOut, facadeVars, sapVars >>

LinCannyCall ==
    /\ satOut.called
    /\ ~linCannyOut.called
    /\ LET closest == LinCannyClosest(query.shapeA, query.shapeB, query.config)
       IN  linCannyOut' = [called |-> TRUE, closest |-> closest,
                           result |-> LinCannyReturn(closest, query.config)]
    /\ UNCHANGED << query, gjkRun, satOut, vClipOut, facadeVars, sapVars >>

VClipCall ==
    /\ linCannyOut.called
    /\ ~vClipOut.called
    /\ LET closest == VClipClosest(query.shapeA, query.shapeB, query.config)
       IN  vClipOut' = [called |-> TRUE, closest |-> closest,
                        result |-> VClipReturn(closest, query.config)]
    /\ UNCHANGED << query, gjkRun, satOut, linCannyOut, facadeVars, sapVars >>

NextNarrow ==
    \/ GjkCall
    \/ GjkStep
    \/ SatCall
    \/ LinCannyCall
    \/ VClipCall

SpecNarrow == InitNarrow /\ [][NextNarrow]_vars

---------------------------------------------------------------------------
(* CollisionProvider under updateShape and setAlgorithm *)

\* presetShapes.square, in tenths of a pixel
PresetSquare == Square(50 * Scale)

\* The shapes updateShape is called with: unit squares, a small square and
\* a triangle near the origin.
GivenShapes ==
    { MkShape(Square(Scale \div 2), Vec(0, 0), 0),
      MkShape(Square(Scale \div 2), Vec(5, 0), 0),
      MkShape(Square(Scale \div 2), Vec(3 * Scale, 0), 0),
      MkShape(Square(Scale \div 2), Vec(8, -9), 0),
      MkShape(Square(2), Vec(1, 1), 0),
      MkShape(Triangle, Vec(0, 0), 0) }

Init ==
    /\ SapIdle
    /\ NarrowIdle
    /\ algorithm = "GJK"
    /\ shapes = << MkShape(PresetSquare, Vec(200 * Scale, 200 * Scale), 0),
                   MkShape(PresetSquare, Vec(400 * Scale, 200 * Scale), 0) >>
    /\ isColliding = FALSE
    /\ debugInfo = << >>
    /\ collisionPoint = NoPoint
    /\ lastCheck = NoCheck

\* setIsColliding, setDebugInfo, setCollisionPoint at the end of checkCollision
Publish(check) ==
    /\ isColliding' = check.run.final.colliding
    /\ debugInfo' = check.run.final.debug
    /\ collisionPoint' = check.run.final.collisionPoint
    /\ lastCheck' = [ran |-> check.ran, pairs |-> check.pairs, calls |-> check.run.calls]

\* updateShape(index, shape)
UpdateShape(index, shape) ==
    /\ shapes' = [shapes EXCEPT ![index] = shape]
    /\ Publish(checkCollision([shapes EXCEPT ![index] = shape], algorithm))
    /\ UNCHANGED << algorithm, sapVars, narrowVars >>

\* setAlgorithm(algo)
SetAlgorithm(algo) ==
    /\ algorithm' = algo
    /\ UNCHANGED << shapes, isColliding, debugInfo, collisionPoint, lastCheck,
                    sapVars, narrowVars >>

Next ==
    \/ \E index \in 1..2 : \E shape \in GivenShapes : UpdateShape(index, shape)
    \/ \E algo \in Algorithms : SetAlgorithm(algo)

Spec == Init /\ [][Next]_vars

---------------------------------------------------------------------------
(* checkCollision's stages on a scene of three shapes *)

\* Unit squares in a row, each overlapping or touching its neighbour, and a
\* rectangle that spans them.
SceneShapes ==
    { MkShape(Square(Scale \div 2), Vec(0, 0), 0),
      MkShape(Square(Scale \div 2), Vec(5, 0), 0),
      MkShape(Square(Scale \div 2), Vec(Scale, 0), 0),
      MkShape(Rect(12, 5), Vec(6, 0), 0) }

\* checkCollision with every shape of the scene inserted, in order.
checkScene(sc, algo) ==
    Aggregate(getPairs(SapInsert(SapInsert(SapInsert(<< >>, 1, sc), 2, sc), 3, sc), sc).pairs,
              sc, algo)

InitScene ==
    /\ NarrowIdle
    /\ scene \in { << a, b, c >> : a \in SceneShapes, b \in SceneShapes, c \in SceneShapes }
    /\ intervals = << >>
    /\ sapPc = "none"
    /\ pairsOut = << >>
    /\ algorithm \in Algorithms
    /\ shapes = << >>
    /\ isColliding = FALSE
    /\ debugInfo = << >>
    /\ collisionPoint = NoPoint
    /\ lastCheck = NoCheck

CheckScene ==
    /\ Publish(checkScene(scene, algorithm))
    /\ UNCHANGED << algorithm, shapes, sapVars, narrowVars >>

NextScene == CheckScene

SpecScene == InitScene /\ [][NextScene]_vars

---------------------------------------------------------------------------
(* Properties of checkCollision *)

Calls == lastCheck.calls

CollidingCalls == { k \in DOMAIN Calls : Calls[k].result.colliding }

\* The shapes of the last run: the provider's two, or the scene.
CheckedShapes == IF shapes # << >> THEN shapes ELSE scene

\* Every candidate pair got one narrow-phase call, in order, and no other
\* call was made.
CallsFollowPairs ==
    /\ Len(Calls) = Len(lastCheck.pairs)
    /\ \A k \in DOMAIN Calls :
          /\ Calls[k].shapeA = CheckedShapes[lastCheck.pairs[k][1]]
          /\ Calls[k].shapeB = CheckedShapes[lastCheck.pairs[k][2]]

\* C1: after checkCollision, the colliding flag is true exactly when the
\* selected algorithm returned colliding for some candidate pair of getPairs;
\* a candidate pair without a positive narrow-phase verdict leaves it false.
C1_FlagIffNarrowVerdict ==
    lastCheck.ran =>
        /\ CallsFollowPairs
        /\ isColliding <=> (CollidingCalls # {})

\* A run with a candidate pair that the narrow phase rejected.
C1_Witness ==
    /\ lastCheck.ran
    /\ Len(lastCheck.pairs) = 1
    /\ Len(Calls) = 1
    /\ ~Calls[1].result.colliding
    /\ ~isColliding

\* C8: when getPairs returns no pairs, checkCollision makes no narrow-phase
\* call, ends its trace with the "no potential collisions" entry, and
\* publishes colliding = false and no collision point.
C8_NoPairsShortCircuit ==
    (lastCheck.ran /\ lastCheck.pairs = << >>) =>
        /\ Calls = << >>
        /\ debugInfo = << Msg("Starting collision check..."),
                          Msg("Broad-phase: No potential collisions found") >>
        /\ ~isColliding
        /\ collisionPoint = NoPoint

\* A run on two unit squares three units apart.
C8_Witness ==
    /\ lastCheck.ran
    /\ lastCheck.pairs = << >>
    /\ shapes = << MkShape(Square(Scale \div 2), Vec(0, 0), 0),
                   MkShape(Square(Scale \div 2), Vec(3 * Scale, 0), 0) >>
    /\ Len(debugInfo) = 2

RECURSIVE ConcatDebug(_)
ConcatDebug(calls) ==
    IF calls = << >> THEN << >>
    ELSE ConcatDebug(SubSeq(calls, 1, Len(calls) - 1)) \o calls[Len(calls)].result.debug

\* C9: the published trace is checkCollision's opening entry followed by the
\* traces of all its narrow-phase calls, in order, colliding or not.
C9_TraceIsConcatenation ==
    (lastCheck.ran /\ Calls # << >>) =>
        debugInfo = << Msg("Starting collision check...") >> \o ConcatDebug(Calls)

\* C10: when candidate pairs collide, the published collision point is the
\* one the narrow phase returned for the last colliding pair; non-colliding
\* pairs after it leave it alone.
C10_LastWriteWins ==
    (lastCheck.ran /\ CollidingCalls # {}) =>
        collisionPoint = Calls[MaxOf(CollidingCalls)].result.collisionPoint

\* Two colliding pairs with different points, then a non-colliding pair.
C10_Witness ==
    /\ lastCheck.ran
    /\ Len(Calls) = 3
    /\ CollidingCalls = {1, 2}
    /\ Calls[1].result.collisionPoint # Calls[2].result.collisionPoint
    /\ collisionPoint = Calls[2].result.collisionPoint

---------------------------------------------------------------------------
(* Properties of the detectors *)

\* C3: gjk begins at most config.maxIterations iterations of its loop, and
\* when it leaves the loop at the cap it has run exactly that many and
\* returns a result with colliding = false.
C3_GjkIterationCap ==
    /\ gjkRun.i <= query.config.maxIterations
    /\ gjkRun.exit = "max-iterations" =>
          /\ gjkRun.status = "returned"
          /\ gjkRun.i = query.config.maxIterations
          /\ gjkRun.result.colliding = FALSE
          /\ gjkRun.result.collisionPoint = NoPoint
          /\ gjkRun.result.debug[Len(gjkRun.result.debug)] = Msg("Max iterations reached")

\* A call that ran both iterations of a cap of two and returned at the cap.
C3_Witness ==
    /\ gjkRun.exit = "max-iterations"
    /\ query.config.maxIterations = 2
    /\ gjkRun.i = 2
    /\ ~gjkRun.result.colliding

\* The two convex polygons have a common interior point: on no edge normal
\* of either do their projections lie apart or merely touch.
InteriorsOverlap(shapeA, shapeB) ==
    LET points1 == transformPoints(shapeA)
        points2 == transformPoints(shapeB)
        Normals(ps) == { Vec(ps[i].y - ps[(i % Len(ps)) + 1].y,
                             ps[(i % Len(ps)) + 1].x - ps[i].x) : i \in 1..Len(ps) }
        Lo(ps, n) == MinOf({ Dot(ps[i], n) : i \in 1..Len(ps) })
        Hi(ps, n) == MaxOf({ Dot(ps[i], n) : i \in 1..Len(ps) })
    IN  \A n \in Normals(points1) \cup Normals(points2) :
            Hi(points1, n) > Lo(points2, n) /\ Hi(points2, n) > Lo(points1, n)

\* C4: on convex polygons whose interiors overlap, gjk (with the default
\* iteration cap) and sat return the same colliding verdict.
C4_GjkSatAgree ==
    ( /\ satOut.called
      /\ query.config.maxIterations = defaultConfig.maxIterations
      /\ InteriorsOverlap(query.shapeA, query.shapeB) )
    => gjkRun.result.colliding = satOut.result.colliding

\* The triangle and a turned unit square that overlaps it: both say colliding.
C4_Witness ==
    /\ satOut.called
    /\ query.config = defaultConfig
    /\ query.shapeA.points = Triangle
    /\ query.shapeB = MkShape(Square(Scale \div 2), Vec(5, 4), 1)
    /\ InteriorsOverlap(query.shapeA, query.shapeB)
    /\ gjkRun.result.colliding
    /\ satOut.result.colliding

UnitSquare == Square(Scale \div 2)

\* Unit squares centred at (0,0) and (3,0), default configuration.
SeparatedSquares ==
    [shapeA |-> MkShape(UnitSquare, Zero, 0),
     shapeB |-> MkShape(UnitSquare, Vec(3 * Scale, 0), 0),
     config |-> defaultConfig]

\* Unit squares centred at (0,0) and (0.5,0), default configuration.
OverlappingSquares ==
    [shapeA |-> MkShape(UnitSquare, Zero, 0),
     shapeB |-> MkShape(UnitSquare, Vec(Scale \div 2, 0), 0),
     config |-> defaultConfig]

\* C5: for unit squares centred at (0,0) and (3,0) and the default
\* configuration, none of gjk, sat, linCanny, vClip returns colliding = true.
C5_SeparatedSquaresClear ==
    query = SeparatedSquares =>
        /\ gjkRun.status = "returned" => ~gjkRun.result.colliding
        /\ satOut.called => ~satOut.result.colliding
        /\ linCannyOut.called => ~linCannyOut.result.colliding
        /\ vClipOut.called => ~vClipOut.result.colliding

\* C6: for unit squares centred at (0,0) and (0.5,0), each of gjk, sat,
\* linCanny, vClip returns colliding = true.
C6_OverlappingSquaresCollide ==
    query = OverlappingSquares =>
        /\ gjkRun.status = "returned" => gjkRun.result.colliding
        /\ satOut.called => satOut.result.colliding
        /\ linCannyOut.called => linCannyOut.result.colliding
        /\ vClipOut.called => vClipOut.result.colliding

\* All four have returned on the overlapping squares.
C6_Witness ==
    /\ query = OverlappingSquares
    /\ gjkRun.status = "returned" /\ gjkRun.result.colliding
    /\ satOut.called /\ satOut.result.colliding
    /\ linCannyOut.called /\ linCannyOut.result.colliding
    /\ vClipOut.called /\ vClipOut.result.colliding

\* The even-odd test finds a vertex of one polygon inside the other.
VertexInside(shapeA, shapeB) ==
    LET points1 == transformPoints(shapeA)
        points2 == transformPoints(shapeB)
    IN  \/ \E i \in 1..Len(points1) : isInside(points1[i], points2)
        \/ \E i \in 1..Len(points2) : isInside(points2[i], points1)

\* C7: when the even-odd test finds a vertex of one polygon inside the
\* other, linCanny and vClip end with the containment record, distance 0,
\* not overwritten by a distance check, and return colliding = true whatever
\* the positive threshold.
C7_ContainmentBranch ==
    VertexInside(query.shapeA, query.shapeB) =>
        /\ linCannyOut.called =>
              /\ linCannyOut.closest.type = "Containment"
              /\ linCannyOut.closest.distance = DistSq(0, 1)
              /\ linCannyOut.result.colliding
        /\ vClipOut.called =>
              /\ vClipOut.closest.type \in { "Containment (ShapeA in ShapeB)",
                                             "Containment (ShapeB in ShapeA)" }
              /\ vClipOut.closest.distance = DistSq(0, 1)
              /\ vClipOut.result.colliding

\* The unit square with the small square inside it, under the smallest
\* threshold tried.
C7_Witness ==
    /\ query.shapeA.points = UnitSquare
    /\ query.shapeB = MkShape(Square(2), Zero, 0)
    /\ query.config.collisionThreshold = [num |-> 1, den |-> 100]
    /\ vClipOut.called
    /\ vClipOut.closest.type = "Containment (ShapeB in ShapeA)"
    /\ linCannyOut.closest.type = "Containment"
    /\ linCannyOut.result.colliding /\ vClipOut.result.colliding

---------------------------------------------------------------------------
(* Minimum separation *)

\* Squared distance from p to its projection clamped onto the segment a-b.
SegDistSq(p, a, b) ==
    LET e  == VSub(b, a)
        w  == VSub(p, a)
        l2 == LenSq(e)
        pr == Dot(w, e)
    IN  IF l2 = 0 \/ pr <= 0 THEN DistSq(LenSq(w), 1)
        ELSE IF pr >= l2 THEN DistSq(LenSq(VSub(p, b)), 1)
        ELSE DistSq(Cross(w, e) * Cross(w, e), l2)

\* The distances of every vertex of vs to every edge of es.
VertexEdgeDists(vs, es) ==
    { SegDistSq(vs[i], es[j], es[(j % Len(es)) + 1]) : i \in 1..Len(vs), j \in 1..Len(es) }

\* The minimum separation of the two shapes, squared: 0 under containment,
\* else the least vertex-to-edge distance in both directions.
MinSeparation(shapeA, shapeB) ==
    LET points1 == transformPoints(shapeA)
        points2 == transformPoints(shapeB)
        ds == VertexEdgeDists(points1, points2) \cup VertexEdgeDists(points2, points1)
    IN  IF VertexInside(shapeA, shapeB) THEN DistSq(0, 1)
        ELSE CHOOSE d \in ds : \A e \in ds : ~DistLt(e, d)

SeparationBelowThreshold ==
    BelowThreshold(OfDist(MinSeparation(query.shapeA, query.shapeB)), query.config)

\* C11: linCanny and vClip return colliding = true exactly when the minimum
\* separation of the pair is strictly below config.collisionThreshold.
C11_CollidingIffBelowThreshold ==
    /\ linCannyOut.called => (linCannyOut.result.colliding <=> SeparationBelowThreshold)
    /\ vClipOut.called => (vClipOut.result.colliding <=> SeparationBelowThreshold)

\* vClip alone decides by the minimum separation.
VClipCollidingIffBelowThreshold ==
    vClipOut.called => (vClipOut.result.colliding <=> SeparationBelowThreshold)

---------------------------------------------------------------------------
(* Separating axes *)

\* The edge normals of both polygons, in the order sat takes them.
EdgeNormals(shapeA, shapeB) ==
    LET Normals(ps) == [i \in 1..Len(ps) |->
                           Vec(ps[i].y - ps[(i % Len(ps)) + 1].y,
                               ps[(i % Len(ps)) + 1].x - ps[i].x)]
    IN  Normals(transformPoints(shapeA)) \o Normals(transformPoints(shapeB))

\* The projections of the two polygons on n are strictly disjoint.
StrictlyApartOn(shapeA, shapeB, n) ==
    LET Lo(ps) == MinOf({ Dot(ps[i], n) : i \in 1..Len(ps) })
        Hi(ps) == MaxOf({ Dot(ps[i], n) : i \in 1..Len(ps) })
    IN  \/ Hi(transformPoints(shapeA)) < Lo(transformPoints(shapeB))
        \/ Hi(transformPoints(shapeB)) < Lo(transformPoints(shapeA))

SeparatingAxes ==
    { k \in DOMAIN EdgeNormals(query.shapeA, query.shapeB) :
        StrictlyApartOn(query.shapeA, query.shapeB,
                        EdgeNormals(query.shapeA, query.shapeB)[k]) }

BroadPhaseRejects ==
    /\ query.config.useBroadPhase
    /\ ~aabbOverlap(computeAABB(query.shapeA), computeAABB(query.shapeB))

\* C12: sat returns colliding = false exactly when some edge normal of
\* either polygon gives strictly disjoint projections, and its axis loop
\* then stops at the first such axis; with overlapping or touching
\* projections on every axis it returns colliding = true.
C12_SatIffSeparatingAxis ==
    satOut.called =>
        /\ ~satOut.result.colliding <=> (SeparatingAxes # {})
        /\ (SeparatingAxes # {} /\ ~BroadPhaseRejects) =>
              satOut.tested = MinOf(SeparatingAxes)
        /\ SeparatingAxes = {} =>
              satOut.tested = Len(EdgeNormals(query.shapeA, query.shapeB))

\* A rejection at an axis that is not the last, with overlapping boxes.
C12_Witness ==
    /\ satOut.called
    /\ ~satOut.result.colliding
    /\ ~BroadPhaseRejects
    /\ satOut.tested < Len(EdgeNormals(query.shapeA, query.shapeB))
    /\ aabbOverlap(computeAABB(query.shapeA), computeAABB(query.shapeB))

\* Squares that touch along an edge: no gap, sat says colliding.
SatTouchingCollides ==
    /\ satOut.called
    /\ query.shapeA.points = UnitSquare
    /\ query.shapeB = MkShape(UnitSquare, Vec(Scale, 0), 0)
    /\ SeparatingAxes = {}
    /\ satOut.result.colliding

---------------------------------------------------------------------------
(* Inputs are not written *)

\* The objects a gjk call in its loop holds in direction and simplex.
GjkObjects ==
    IF gjkRun.status = "idle" \/ gjkRun.exit = "broad-phase" THEN {}
    ELSE { gjkRun.direction.ref } \cup { gjkRun.simplex[k].ref : k \in 1..Len(gjkRun.simplex) }

\* The vertex objects of the shapes passed in and of the world-space lists.
VertexObjects ==
    { NewVector2("shapeA.points", i) : i \in 1..Len(query.shapeA.points) }
    \cup { NewVector2("shapeB.points", i) : i \in 1..Len(query.shapeB.points) }
    \cup { NewVector2("points1", i) : i \in 1..Len(query.shapeA.points) }
    \cup { NewVector2("points2", i) : i \in 1..Len(query.shapeB.points) }

\* The object direction.copy writes is none of the simplex points.
DirectionIsItsOwnObject ==
    gjkRun.status = "loop" =>
        \A k \in 1..Len(gjkRun.simplex) : gjkRun.simplex[k].ref # gjkRun.direction.ref

\* C13: no detector call changes the points, position or rotation of the
\* shapes passed to it, and the objects gjk writes in place (direction,
\* by copy) or splices (the simplex points) are never a vertex of an input
\* shape or of a world-space vertex list.
C13_InputsNotWritten ==
    /\ [](GjkObjects \cap VertexObjects = {})
    /\ []DirectionIsItsOwnObject
    /\ [][query' = query]_vars

\* Two loop turns done: handleLine and handleTriangle have both written
\* direction in place, and a simplex point has been spliced out.
C13_Witness ==
    /\ gjkRun.status = "loop"
    /\ gjkRun.i >= 2
    /\ gjkRun.direction.ref = NewVector2("negate", 0)
    /\ Len(gjkRun.simplex) = 2

---------------------------------------------------------------------------
(* SweepAndPrune with shapes that move between insert and getPairs *)

\* Squares of side 2 with x-extents [0,2], [1,3], [5,7].
MovingShapes ==
    { MkShape(Square(Scale), Vec(Scale, 0), 0),
      MkShape(Square(Scale), Vec(2 * Scale, 0), 0),
      MkShape(Square(Scale), Vec(6 * Scale, 0), 0) }

InitSAPMoving ==
    /\ FacadeIdle
    /\ NarrowIdle
    /\ scene \in { << a, b, c >> : a \in MovingShapes, b \in MovingShapes, c \in MovingShapes }
    /\ intervals = << >>
    /\ sapPc = "new"
    /\ pairsOut = << >>

\* The caller changes the pose of a shape object (shape.position = ...):
\* a shape the structure holds is the same object, its interval is not
\* touched.
MoveShape(id, shape) ==
    /\ scene[id] # shape
    /\ scene' = [scene EXCEPT ![id] = shape]
    /\ sapPc' = "moved"
    /\ UNCHANGED << intervals, pairsOut, facadeVars, narrowVars >>

NextSAPMoving ==
    \/ \E id \in DOMAIN scene : Insert(id)
    \/ \E id \in DOMAIN scene : \E shape \in MovingShapes : MoveShape(id, shape)
    \/ GetPairs

SpecSAPMoving == InitSAPMoving /\ [][NextSAPMoving]_vars

\* C14: after any sequence of inserts of distinct shapes, pose changes and
\* getPairs, the pairs getPairs returns are exactly the pairs of inserted
\* shapes whose bounding boxes, computed from the poses at the time of the
\* call, overlap.
C14_PairsReflectCurrentPose ==
    (sapPc = "returned" /\ NoDuplicateInsert) => ReturnedPairs = OverlappingPairs

---------------------------------------------------------------------------
(* Fewer than two shapes *)

\* C15: getPairs returns an empty list when no shape or exactly one shape
\* has been inserted.
C15_FewShapesNoPairs ==
    (sapPc = "returned" /\ Len(intervals) <= 1) => pairsOut = << >>

\* getPairs returned with exactly one shape inserted.
C15_Witness ==
    /\ sapPc = "returned"
    /\ Len(intervals) = 1
    /\ pairsOut = << >>

\* getPairs returned with nothing inserted.
GetPairsOnEmpty ==
    /\ sapPc = "returned"
    /\ intervals = << >>
    /\ pairsOut = << >>

---------------------------------------------------------------------------
(* The identity pose *)

IdentityPose(shape) == shape.rotation = 0 /\ shape.position = Zero

\* C16: for a shape with rotation 0 and position (0,0), transformPoints
\* returns a vertex list of the same length and order whose i-th vertex
\* equals the i-th local vertex.
C16_IdentityTransform ==
    \A shape \in { query.shapeA, query.shapeB } :
        IdentityPose(shape) =>
            /\ Len(transformPoints(shape)) = Len(shape.points)
            /\ \A i \in 1..Len(shape.points) :
                  /\ transformPoints(shape)[i].x = shape.points[i].x
                  /\ transformPoints(shape)[i].y = shape.points[i].y

\* A detector has transformed a triangle and a square, both in the
\* identity pose.
C16_Witness ==
    /\ gjkRun.status # "idle"
    /\ IdentityPose(query.shapeA)
    /\ IdentityPose(query.shapeB)
    /\ query.shapeA.points = Triangle
    /\ query.shapeB.points = UnitSquare

---------------------------------------------------------------------------
(* Polygons with degenerate edges *)

\* The unit square and the triangle with a vertex repeated, a segment
\* given as a triangle with two coincident vertices, and a single point.
DegeneratePolygons ==
    { << Vec(-5, -5), Vec(5, -5), Vec(5, -5), Vec(5, 5), Vec(-5, 5) >>,
      << Vec(0, -5), Vec(4, 3), Vec(-4, 3), Vec(-4, 3) >>,
      << Vec(-5, 0), Vec(5, 0), Vec(5, 0) >>,
      << Vec(0, 0), Vec(0, 0), Vec(0, 0) >> }

DegenerateOffsets == { Vec(x, y) : x \in {0, 5, 10, 3 * Scale}, y \in {0, 4} }

InitDegenerate ==
    /\ FacadeIdle
    /\ SapIdle
    /\ query \in { [shapeA |-> MkShape(pa, Zero, 0), shapeB |-> MkShape(pb, pos, rot),
                    config |-> cfg] :
                   pa \in DegeneratePolygons, pb \in DegeneratePolygons \cup { UnitSquare },
                   pos \in DegenerateOffsets, rot \in {0, 1},
                   cfg \in { defaultConfig, [defaultConfig EXCEPT !.useBroadPhase = FALSE] } }
    /\ gjkRun = GjkIdle
    /\ satOut = NotCalled
    /\ linCannyOut = NotCalled
    /\ vClipOut = NotCalled

SpecDegenerate == InitDegenerate /\ [][NextNarrow]_vars

\* The edges of a vertex list, as pairs of indices.
EdgeEnds(points) == { << j, (j % Len(points)) + 1 >> : j \in 1..Len(points) }

HasDegenerateEdge(points) == \E e \in EdgeEnds(points) : points[e[1]] = points[e[2]]

\* What the vertex/edge steps of findClosestPoint, getClosestPointOnLineSegment,
\* checkVertexEdges (normalize) and the ray-crossing tests divide by, for
\* the vertices vs against the edges of es.
VertexEdgeDivisors(vs, es, config) ==
    UNION { FcpEdge(vs[i], es[e[1]], es[e[2]], config).divisors
            \cup getClosestPointOnLineSegment(vs[i], es[e[1]], es[e[2]], config).divisors
            \cup { normalize(Vec(es[e[1]].y - es[e[2]].y, es[e[2]].x - es[e[1]].x)).returned.over }
            \cup RayDivisors(vs[i], es[e[2]], es[e[1]]) :
            i \in 1..Len(vs), e \in EdgeEnds(es) }

\* What checkLineIntersection divides by, over the pairs of edges.
EdgePairDivisors(points1, points2) ==
    UNION { checkLineIntersection(points1[a[1]], points1[a[2]],
                                  points2[b[1]], points2[b[2]]).divisors :
            a \in EdgeEnds(points1), b \in EdgeEnds(points2) }

\* Every divisor of a division the detectors can evaluate on the query.
Divisors ==
    VertexEdgeDivisors(transformPoints(query.shapeA), transformPoints(query.shapeB),
                       query.config)
    \cup VertexEdgeDivisors(transformPoints(query.shapeB), transformPoints(query.shapeA),
                            query.config)
    \cup EdgePairDivisors(transformPoints(query.shapeA), transformPoints(query.shapeB))

\* A reported point is absent or has finite coordinates.
FinitePoint(p) == p = NoPoint \/ p.d > 0

\* C17: on polygons with a degenerate edge no detector divides by zero,
\* and every collision point and distance it reports is finite.
C17_DegenerateEdgesFinite ==
    (HasDegenerateEdge(query.shapeA.points) \/ HasDegenerateEdge(query.shapeB.points)) =>
        /\ 0 \notin Divisors
        /\ gjkRun.status = "returned" => FinitePoint(gjkRun.result.collisionPoint)
        /\ satOut.called => FinitePoint(satOut.result.collisionPoint)
        /\ linCannyOut.called => FinitePoint(linCannyOut.result.collisionPoint)
        /\ vClipOut.called =>
              /\ FinitePoint(vClipOut.result.collisionPoint)
              /\ vClipOut.closest.distance.d > 0

\* All four detectors have run on a square and a triangle that both have a
\* repeated vertex and overlap; each reports a point.
C17_Witness ==
    /\ vClipOut.called
    /\ HasDegenerateEdge(query.shapeA.points)
    /\ HasDegenerateEdge(query.shapeB.points)
    /\ Len(query.shapeA.points) = 5
    /\ Len(query.shapeB.points) = 4
    /\ gjkRun.result.colliding /\ gjkRun.result.collisionPoint.d > 0
    /\ satOut.result.colliding /\ satOut.result.collisionPoint.d > 0
    /\ linCannyOut.result.collisionPoint.d > 0
    /\ vClipOut.result.collisionPoint.d > 0

---------------------------------------------------------------------------
(* normalize of the zero vector *)

\* The vectors the detectors normalize on the query: the edge normals.
NormalizedVectors ==
    LET Normals(ps) == { Vec(ps[e[1]].y - ps[e[2]].y, ps[e[2]].x - ps[e[1]].x) :
                         e \in EdgeEnds(ps) }
    IN  Normals(transformPoints(query.shapeA)) \cup Normals(transformPoints(query.shapeB))

\* C19: normalize of a vector of length 0 returns the zero vector without
\* dividing by zero, and leaves its receiver unchanged.
C19_NormalizeZero ==
    \A v \in NormalizedVectors :
        /\ normalize(v).this = v
        /\ normalize(v).returned.over # 0
        /\ LenSq(v) = 0 =>
              /\ normalize(v).returned.x = 0
              /\ normalize(v).returned.y = 0
              /\ normalize(v).returned.over = 1

\* sat has taken the axes of polygons with a zero-length edge: getAxes
\* normalized the zero vector, and the remaining axes decided.
C19_Witness ==
    /\ satOut.called
    /\ ~BroadPhaseRejects
    /\ Zero \in NormalizedVectors
    /\ \E v \in NormalizedVectors : LenSq(v) # 0
    /\ ~satOut.result.colliding

---------------------------------------------------------------------------
(* Broad-phase rejection inside the detectors *)

\* C18: a detector called with useBroadPhase = true on shapes whose
\* bounding boxes do not overlap returns colliding = false and no
\* collision point.
C18_BroadPhaseRejection ==
    BroadPhaseRejects =>
        /\ gjkRun.status = "returned" =>
              ~gjkRun.result.colliding /\ gjkRun.result.collisionPoint = NoPoint
        /\ satOut.called =>
              ~satOut.result.colliding /\ satOut.result.collisionPoint = NoPoint
        /\ linCannyOut.called =>
              ~linCannyOut.result.colliding /\ linCannyOut.result.collisionPoint = NoPoint
        /\ vClipOut.called =>
              ~vClipOut.result.colliding /\ vClipOut.result.collisionPoint = NoPoint

\* gjk and sat return from their broad-phase test.
GjkSatBroadPhaseRejection ==
    BroadPhaseRejects =>
        /\ gjkRun.status = "returned" =>
              /\ gjkRun.exit = "broad-phase"
              /\ ~gjkRun.result.colliding /\ gjkRun.result.collisionPoint = NoPoint
        /\ satOut.called =>
              /\ satOut.tested = 0
              /\ ~satOut.result.colliding /\ satOut.result.collisionPoint = NoPoint

\* vClip on the same inputs is not colliding, but reports a point.
VClipNoCollisionOnRejection ==
    (BroadPhaseRejects /\ vClipOut.called /\ query.config = defaultConfig) =>
        ~vClipOut.result.colliding

---------------------------------------------------------------------------
(* The size of the simplex *)

\* C20: while a gjk call is in or past its loop the simplex holds 1 to 3
\* points, at most 2 when an iteration starts; handleSimplex gets 2 points
\* in the first iteration and 3 in every later one, and a triangle step
\* that reports no collision leaves 2 points.
C20_SimplexSize ==
    (gjkRun.status # "idle" /\ gjkRun.exit # "broad-phase") =>
        /\ Len(gjkRun.simplex) \in 1..3
        /\ gjkRun.status = "loop" => Len(gjkRun.simplex) <= 2
        /\ gjkRun.handled \in {0, 2, 3}
        /\ gjkRun.handled = 2 => gjkRun.i = 1
        /\ gjkRun.handled = 3 => gjkRun.i >= 2
        /\ (gjkRun.handled # 0 /\ gjkRun.status = "loop") => Len(gjkRun.simplex) = 2
        /\ (gjkRun.i >= 1 /\ gjkRun.exit \in {"", "enclosed"}) =>
              gjkRun.handled = (IF gjkRun.i = 1 THEN 2 ELSE 3)

\* A triangle step found the origin outside an edge and removed a point.
C20_Witness ==
    /\ gjkRun.status = "loop"
    /\ gjkRun.handled = 3
    /\ Len(gjkRun.simplex) = 2
    /\ gjkRun.i = 2

\* A run that ends with the full triangle around the origin.
SimplexOfThreeEncloses ==
    /\ gjkRun.exit = "enclosed"
    /\ gjkRun.handled = 3
    /\ Len(gjkRun.simplex) = 3

---------------------------------------------------------------------------
(* The separating-direction exit of gjk *)

\* The dot product of the support point in the current direction with
\* that direction.
SupportDot ==
    Dot(getSupport(transformPoints(query.shapeA), transformPoints(query.shapeB),
                   gjkRun.direction),
        gjkRun.direction)

\* An iteration is about to run and its support point is not past the
\* origin.
SupportFailsTest ==
    /\ gjkRun.status = "loop"
    /\ gjkRun.i < query.config.maxIterations
    /\ SupportDot <= 0

\* C21: an iteration whose support point p has p . direction <= 0 makes
\* gjk return colliding = false at once: p is not pushed, handleSimplex is
\* not called, no collision point is reported.
C21_NotPastOriginReturns ==
    [][SupportFailsTest =>
          /\ gjkRun'.status = "returned"
          /\ gjkRun'.exit = "not-past-origin"
          /\ ~gjkRun'.result.colliding
          /\ gjkRun'.result.collisionPoint = NoPoint
          /\ gjkRun'.simplex = gjkRun.simplex
          /\ gjkRun'.direction = gjkRun.direction
          /\ gjkRun'.handled = 0]_vars

\* gjk has returned at a support point whose dot product is exactly 0.
C21_Witness ==
    /\ gjkRun.exit = "not-past-origin"
    /\ SupportDot = 0
    /\ ~gjkRun.result.colliding
    /\ gjkRun.handled = 0

\* gjk has returned at a support point behind the origin, after a turn
\* that handled a simplex.
NotPastOriginAfterTurn ==
    /\ gjkRun.exit = "not-past-origin"
    /\ SupportDot < 0
    /\ gjkRun.i >= 2

---------------------------------------------------------------------------
(* The triangle case *)

\* The object the turn about to run gets from getSupport.
NextSupport ==
    getSupportObject(transformPoints(query.shapeA), transformPoints(query.shapeB),
                     gjkRun.direction, gjkRun.i + 1)

\* A turn is about to run that pushes a third point and handles a triangle.
TriangleTurn ==
    /\ gjkRun.status = "loop"
    /\ gjkRun.i < query.config.maxIterations
    /\ Len(gjkRun.simplex) = 2
    /\ SupportDot > 0

\* The origin and the point opp lie strictly on opposite sides of the line
\* through a and p.
OriginOutside(a, p, opp) ==
    Cross(VSub(p, a), VSub(Zero, a)) * Cross(VSub(p, a), VSub(opp, a)) < 0

\* dir is a perpendicular of the edge from a to p that points away from opp.
PerpAwayFrom(dir, a, p, opp) ==
    /\ Dot(dir, VSub(p, a)) = 0
    /\ Dot(dir, VSub(opp, a)) < 0

\* C22: the triangle case with simplex [c, b, a], a the newest point: with
\* the origin outside edge AB it removes c and turns the direction to the
\* perpendicular of AB away from c; else with the origin outside edge AC
\* it removes b and turns the direction to the perpendicular of AC away
\* from b; else gjk reports a collision.  a is never removed.
C22_TriangleCase ==
    [][TriangleTurn =>
          LET a == NextSupport
              b == gjkRun.simplex[2]
              c == gjkRun.simplex[1]
          IN  /\ gjkRun'.handled = 3
              /\ gjkRun'.simplex[Len(gjkRun'.simplex)] = a
              /\ IF OriginOutside(a, b, c)
                 THEN /\ gjkRun'.status = "loop"
                      /\ gjkRun'.simplex = << b, a >>
                      /\ PerpAwayFrom(gjkRun'.direction, a, b, c)
                 ELSE IF OriginOutside(a, c, b)
                 THEN /\ gjkRun'.status = "loop"
                      /\ gjkRun'.simplex = << c, a >>
                      /\ PerpAwayFrom(gjkRun'.direction, a, c, b)
                 ELSE /\ gjkRun'.status = "returned"
                      /\ gjkRun'.result.colliding
                      /\ gjkRun'.simplex = << c, b, a >>
                      /\ gjkRun'.direction = gjkRun.direction]_vars

\* A triangle turn has removed c, the older of the two points it found.
C22_Witness ==
    /\ gjkRun.status = "loop"
    /\ gjkRun.handled = 3
    /\ gjkRun.simplex[1].ref = NewVector2("getSupport", gjkRun.i - 1)
    /\ gjkRun.simplex[2].ref = NewVector2("getSupport", gjkRun.i)

\* A triangle turn has removed b and kept c.
TriangleRemovedB ==
    /\ gjkRun.status = "loop"
    /\ gjkRun.handled = 3
    /\ gjkRun.simplex[1].ref.n < gjkRun.i - 1
    /\ gjkRun.simplex[2].ref = NewVector2("getSupport", gjkRun.i)

---------------------------------------------------------------------------
(* The line case *)

\* A turn is about to run that pushes a second point and handles a line.
LineTurn ==
    /\ gjkRun.status = "loop"
    /\ gjkRun.i < query.config.maxIterations
    /\ Len(gjkRun.simplex) = 1
    /\ SupportDot > 0

\* The origin is on the line through a and b.
OriginOnLine(a, b) == Cross(VSub(b, a), VSub(Zero, a)) = 0

LineCaseOriginOnSegment ==
    /\ gjkRun.exit = "enclosed"
    /\ gjkRun.handled = 2
    /\ OriginOnLine(gjkRun.simplex[2], gjkRun.simplex[1])

---------------------------------------------------------------------------
(* The epsilon of the configuration *)

\* Epsilons of 1e-6, 1 and 100 world units.
Epsilons == { [num |-> 1, den |-> 100000], [num |-> Scale, den |-> 1],
              [num |-> 100 * Scale, den |-> 1] }

InitEpsilon ==
    /\ FacadeIdle
    /\ SapIdle
    /\ query \in { [shapeA |-> MkShape(pa, Zero, 0), shapeB |-> MkShape(pb, pos, 0),
                    config |-> [defaultConfig EXCEPT !.epsilon = eps]] :
                   pa \in NarrowPolygons, pb \in NarrowPolygons, pos \in NarrowOffsets,
                   eps \in Epsilons }
    /\ gjkRun = GjkIdle
    /\ satOut = NotCalled
    /\ linCannyOut = NotCalled
    /\ vClipOut = NotCalled

SpecEpsilon == InitEpsilon /\ [][NextNarrow]_vars

\* The line case has just run on simplex [b, a].
LineCaseDone == gjkRun.handled = 2 /\ Len(gjkRun.simplex) = 2

\* The line case left the direction at -b, what it was set to before the
\* loop, and answered whether |a| <= eps.
TreatedAsDegenerate(eps) ==
    /\ gjkRun.direction.x = -gjkRun.simplex[1].x
    /\ gjkRun.direction.y = -gjkRun.simplex[1].y
    /\ gjkRun.result.colliding <=> LenLeEps(LenSq(gjkRun.simplex[2]), eps)

\* The length of the simplex edge is below eps.
EdgeBelow(eps) ==
    LenLtEps(LenSq(VSub(gjkRun.simplex[1], gjkRun.simplex[2])), eps)

\* The line case did what it does with an edge that is not degenerate:
\* with the origin on line AB it answered by the lengths, otherwise it
\* turned the direction to a perpendicular of AB and answered no.
TreatedAsNonDegenerate ==
    LET a  == gjkRun.simplex[2]
        b  == gjkRun.simplex[1]
        ab == VSub(b, a)
    IN  IF OriginOnLine(a, b)
        THEN /\ gjkRun.direction.x = -b.x /\ gjkRun.direction.y = -b.y
             /\ gjkRun.result.colliding <=> (LenSq(a) <= LenSq(ab) /\ LenSq(b) <= LenSq(ab))
        ELSE /\ Dot(gjkRun.direction, ab) = 0
             /\ Dot(gjkRun.direction, VSub(Zero, a)) > 0
             /\ ~gjkRun.result.colliding

\* C24: the degenerate-edge test of the line case of a gjk run uses the
\* epsilon of the config gjk was called with: a simplex edge shorter than
\* that epsilon is treated as degenerate, any other is not.
C24_EpsilonOfConfig ==
    LineCaseDone =>
        IF EdgeBelow(query.config.epsilon)
        THEN TreatedAsDegenerate(query.config.epsilon)
        ELSE TreatedAsNonDegenerate

\* The test uses the epsilon of defaultConfig whatever config gjk got.
LineCaseUsesDefaultEpsilon ==
    LineCaseDone =>
        IF EdgeBelow(defaultConfig.epsilon)
        THEN TreatedAsDegenerate(defaultConfig.epsilon)
        ELSE TreatedAsNonDegenerate

---------------------------------------------------------------------------
(* Zero-length edges in sat *)

\* A vertex list without the vertices that repeat their predecessor.
RECURSIVE WithoutRepeats(_)
WithoutRepeats(ps) ==
    IF Len(ps) <= 1 THEN ps
    ELSE LET front == WithoutRepeats(SubSeq(ps, 1, Len(ps) - 1))
         IN  IF ps[Len(ps)] = ps[Len(ps) - 1] THEN front ELSE Append(front, ps[Len(ps)])

WithoutRepeatedVertices(shape) == [shape EXCEPT !.points = WithoutRepeats(shape.points)]

\* The axis getAxes makes of a zero-length edge.
ZeroEdgeAxis == normalize(Vec(0, 0)).returned

\* C25: the axis of a zero-length edge is the zero vector, both polygons
\* project on it to [0, 0] and sat sees no gap there; sat's verdict on
\* polygons with repeated vertices is its verdict on the same polygons
\* without the repeats.
C25_ZeroEdgeNoAxis ==
    satOut.called =>
        /\ ZeroEdgeAxis.x = 0 /\ ZeroEdgeAxis.y = 0
        /\ project(transformPoints(query.shapeA), ZeroEdgeAxis) = [min |-> 0, max |-> 0]
        /\ project(transformPoints(query.shapeB), ZeroEdgeAxis) = [min |-> 0, max |-> 0]
        /\ ~Gap(transformPoints(query.shapeA), transformPoints(query.shapeB), ZeroEdgeAxis)
        /\ satOut.result.colliding
              = sat(WithoutRepeatedVertices(query.shapeA),
                    WithoutRepeatedVertices(query.shapeB), query.config).colliding

\* sat has gone through the axes of a square with a repeated vertex and
\* a triangle with a repeated vertex, the zero axes among them, and found
\* no gap.
C25_Witness ==
    /\ satOut.called
    /\ ~BroadPhaseRejects
    /\ Len(query.shapeA.points) = 5
    /\ Len(WithoutRepeats(query.shapeA.points)) = 4
    /\ Len(query.shapeB.points) = 4
    /\ Len(WithoutRepeats(query.shapeB.points)) = 3
    /\ satOut.tested = 9
    /\ satOut.result.colliding

\* sat has found a gap on an axis that comes after a zero axis.
GapAfterZeroAxis ==
    /\ satOut.called
    /\ ~satOut.result.colliding
    /\ \E k \in 1..(satOut.tested - 1) :
          LET axis == (getAxes(transformPoints(query.shapeA))
                         \o getAxes(transformPoints(query.shapeB)))[k]
          IN  axis.x = 0 /\ axis.y = 0

---------------------------------------------------------------------------
(* Polygons that cross *)

\* Rectangles 1.6 by 0.2 and 0.2 by 1.6, and the unit square.
CrossingPolygons == { Rect(8, 1), Rect(1, 8), UnitSquare }

CrossingOffsets == { Vec(x, y) : x \in {0, 3, 12}, y \in {0, 2, 6} }

InitCrossing ==
    /\ FacadeIdle
    /\ SapIdle
    /\ query \in { [shapeA |-> MkShape(pa, Zero, 0), shapeB |-> MkShape(pb, pos, rot),
                    config |-> cfg] :
                   pa \in CrossingPolygons, pb \in CrossingPolygons,
                   pos \in CrossingOffsets, rot \in {0, 1},
                   cfg \in { defaultConfig, [defaultConfig EXCEPT !.useBroadPhase = FALSE] } }
    /\ gjkRun = GjkIdle
    /\ satOut = NotCalled
    /\ linCannyOut = NotCalled
    /\ vClipOut = NotCalled

SpecCrossing == InitCrossing /\ [][NextNarrow]_vars

\* C26: on convex polygons whose interiors overlap, where sat reports
\* colliding = true, vClip reports colliding = true too, also when the
\* polygons cross with no vertex of one inside the other.
C26_VClipAgreesWithSat ==
    ( /\ vClipOut.called
      /\ InteriorsOverlap(query.shapeA, query.shapeB)
      /\ satOut.result.colliding )
    => vClipOut.result.colliding

\* sat and gjk do report the overlap of such polygons.
SatGjkSeeOverlap ==
    ( /\ satOut.called
      /\ InteriorsOverlap(query.shapeA, query.shapeB) )
    => satOut.result.colliding /\ gjkRun.result.colliding

\* vClip agrees with sat when a vertex of one polygon is inside the other.
VClipAgreesOnContainment ==
    ( /\ vClipOut.called
      /\ VertexInside(query.shapeA, query.shapeB)
      /\ satOut.result.colliding )
    => vClipOut.result.colliding


---------------------------------------------------------------------------
(* The provider's verdict against the selected detector called directly *)

\* Both shapes of the provider were given through updateShape.
BothGiven(pair) == \A i \in DOMAIN pair : pair[i] \in GivenShapes

\* The selected detector called on the provider's two shapes, with the
\* provider's configuration.
DirectVerdict(algo, pair) == Narrow(algo, pair[1], pair[2], collisionConfig).colliding

\* A step of updateShape between shapes given through it: the algorithm is
\* the one checkCollision ran with.
CheckedStep == algorithm' = algorithm /\ BothGiven(shapes')

\* C27: the flag checkCollision publishes (SweepAndPrune, then the selected
\* detector on the pairs that survive) equals the flag the selected detector
\* returns when called directly on the two shapes, for each of the four
\* algorithms.
C27_PruningKeepsVerdict ==
    [][CheckedStep => isColliding' = DirectVerdict(algorithm, shapes')]_vars

\* The same, for the algorithms other than Lin-Canny.
PruningKeepsVerdictExceptLinCanny ==
    [][(CheckedStep /\ algorithm # "Lin-Canny")
          => isColliding' = DirectVerdict(algorithm, shapes')]_vars

\* Under Lin-Canny the published flag is the direct verdict whenever the
\* pair survived the broad phase.
PruningKeepsVerdictOnSurvivors ==
    [][(CheckedStep /\ lastCheck'.pairs # << >>)
          => isColliding' = DirectVerdict(algorithm, shapes')]_vars

---------------------------------------------------------------------------
(* The detectors called with the two shapes exchanged *)

\* All four detectors have returned on a query with the default
\* configuration.
AllReturnedOnDefault == vClipOut.called /\ query.config = defaultConfig

GjkOrderFree ==
    AllReturnedOnDefault =>
        gjkRun.result.colliding = gjk(query.shapeB, query.shapeA, query.config).colliding

SatOrderFree ==
    AllReturnedOnDefault =>
        satOut.result.colliding = sat(query.shapeB, query.shapeA, query.config).colliding

LinCannyOrderFree ==
    AllReturnedOnDefault =>
        linCannyOut.result.colliding
            = linCanny(query.shapeB, query.shapeA, query.config).colliding

VClipOrderFree ==
    AllReturnedOnDefault =>
        vClipOut.result.colliding = vClip(query.shapeB, query.shapeA, query.config).colliding

\* C28: for each of gjk, sat, linCanny and vClip the verdict on (A, B) is the
\* verdict on (B, A).
C28_OrderOfShapes ==
    /\ GjkOrderFree
    /\ SatOrderFree
    /\ LinCannyOrderFree
    /\ VClipOrderFree

\* On shapes whose interiors overlap gjk's verdict is the same in both orders.
GjkOrderFreeOnOverlap ==
    (AllReturnedOnDefault /\ InteriorsOverlap(query.shapeA, query.shapeB)) =>
        gjkRun.result.colliding = gjk(query.shapeB, query.shapeA, query.config).colliding

---------------------------------------------------------------------------
(* The published flag and the published point *)

\* C29: after a run of checkCollision, isColliding is true exactly when
\* collisionPoint is not null, whichever algorithm is selected.
C29_FlagIffPoint ==
    lastCheck.ran => (isColliding <=> collisionPoint # NoPoint)

\* A run of V-Clip on a candidate pair that it found apart: the call returned
\* a point, and none was published.
C29_Witness ==
    /\ lastCheck.ran
    /\ Calls # << >>
    /\ Calls[1].algorithm = "V-Clip"
    /\ Calls[1].result.collisionPoint # NoPoint
    /\ ~isColliding
    /\ collisionPoint = NoPoint

\* Each detector that reports a collision under the provider's configuration
\* returns a point with it.
CollidingResultsHavePoint ==
    (vClipOut.called /\ query.config = collisionConfig) =>
        /\ gjkRun.result.colliding => gjkRun.result.collisionPoint # NoPoint
        /\ satOut.result.colliding => satOut.result.collisionPoint # NoPoint
        /\ linCannyOut.result.colliding => linCannyOut.result.collisionPoint # NoPoint
        /\ vClipOut.result.colliding => vClipOut.result.collisionPoint # NoPoint

---------------------------------------------------------------------------
(* The published state against a run on the current state *)

\* What checkCollision would publish for the current shapes under the
\* currently selected algorithm.
CurrentResult == checkCollision(shapes, algorithm).run.final

\* C30: in every state reached through setAlgorithm and updateShape after a
\* first run, the published isColliding, debugInfo and collisionPoint are
\* those of a run of the currently selected algorithm on the current shapes.
C30_PublishedIsCurrent ==
    lastCheck.ran =>
        /\ isColliding = CurrentResult.colliding
        /\ debugInfo = CurrentResult.debug
        /\ collisionPoint = CurrentResult.collisionPoint

\* A step that leaves the algorithm alone (updateShape) publishes the result
\* of a run on the shapes it leaves.
PublishedIsCurrentAfterUpdateShape ==
    [][algorithm' = algorithm =>
          /\ isColliding' = checkCollision(shapes', algorithm').run.final.colliding
          /\ debugInfo' = checkCollision(shapes', algorithm').run.final.debug
          /\ collisionPoint' = checkCollision(shapes', algorithm').run.final.collisionPoint]_vars
=============================================================================
